---- MODULE Spec2Model ----
(***************************************************************************)
(* Model of the distant-label pipeline of sec3_data.py: the line-delimited *)
(* JSON record store DB, reconstruct_ids, and the DistantCollection        *)
(* methods flip_label, correct_query_tweets and remove_query_tweets, the   *)
(* collection loops of fetch_query_tweets and fetch_user_tweets, and of    *)
(* sec3_proc.py the export data_to_batches and the split batches_to_sets.  *)
(*                                                                         *)
(* Python strings are sequences of one-character strings.  A file is the   *)
(* sequence of the characters written to it; the name of a field is kept   *)
(* as one token of that sequence, every other character is a token of its  *)
(* own.  Python dicts are functions; a label is a Python string.           *)
(***************************************************************************)
EXTENDS Integers, Sequences, FiniteSets, TLC

VARIABLES
    disk,       \* file name -> content, for the files that exist under ./data
    db,         \* handle name -> DB object (name, mode, pos, buf, closed)
    dc,         \* the DistantCollection's construction-time attributes
    user_ids,   \* DistantCollection.user_ids : user id -> label
    query_ids,  \* DistantCollection.query_ids : tweet id -> query
    call,       \* the last operation called, with its arguments
    ret,        \* what that operation returned or raised
    log_,       \* ghost: the records handed to DB.insert, in order
    run         \* where the running script stands: its position and locals

vars == <<disk, db, dc, user_ids, query_ids, call, ret, log_, run>>

----------------------------------------------------------------------------
(* Python values *)

NL == "\n"
QT == "\""
BS == "\\"

F == <<"f">>
M == <<"m">>

Ret(kind, val) == [kind |-> kind, val |-> val]
None == Ret("None", <<>>)
KeyError == Ret("KeyError", <<>>)
AssertionError == Ret("AssertionError", <<>>)
\* no script is running: the operations are called one by one
NoRun == [pc |-> "-"]

NoCall == Ret("-", <<>>)

EmptyDict == <<>>

Range(s) == {s[i] : i \in 1..Len(s)}

\* sub in s, for Python strings
In(sub, s) ==
    \E i \in 0..(Len(s) - Len(sub)) : SubSeq(s, i + 1, i + Len(sub)) = sub

\* any([x in text for x in xs])
AnyIn(xs, text) == \E x \in xs : In(x, text)

LowerChar(c) ==
    CASE c = "A" -> "a"
      [] c = "G" -> "g"
      [] c = "I" -> "i"
      [] c = "M" -> "m"
      [] c = "R" -> "r"
      [] OTHER -> c

\* str.lower()
Lower(s) == [i \in 1..Len(s) |-> LowerChar(s[i])]

\* bool(x) of a returned value: None and the empty string are false
Truthy(r) == r.kind = "value" /\ r.val # <<>>

----------------------------------------------------------------------------
(* json.dumps and json.loads on the records the pipeline stores *)

FieldOrder ==
    <<"id", "tweet_id", "user_id", "tweet_text", "label", "query", "distant_label">>

\* the fields whose values are the API's integer ids
IntFields == {"id", "tweet_id", "user_id"}

Digits == <<"0", "1", "2", "3", "4", "5", "6", "7", "8", "9">>

RECURSIVE IntToStr(_)
IntToStr(n) ==
    IF n < 10 THEN <<Digits[n + 1]>>
    ELSE IntToStr(n \div 10) \o <<Digits[(n % 10) + 1]>>

IsDigit(c) == \E d \in 1..10 : Digits[d] = c
DigitVal(c) == (CHOOSE d \in 1..10 : Digits[d] = c) - 1

EscapeChar(c) ==
    CASE c = QT -> <<BS, QT>>
      [] c = BS -> <<BS, BS>>
      [] c = NL -> <<BS, "n">>
      [] OTHER -> <<c>>

RECURSIVE Escape(_)
Escape(s) ==
    IF s = <<>> THEN <<>> ELSE EscapeChar(Head(s)) \o Escape(Tail(s))

EncValue(k, v) ==
    IF k \in IntFields THEN IntToStr(v) ELSE <<QT>> \o Escape(v) \o <<QT>>

RECURSIVE EncFields(_, _, _)
EncFields(rec, i, first) ==
    IF i > Len(FieldOrder) THEN <<>>
    ELSE LET k == FieldOrder[i] IN
         IF k \in DOMAIN rec
         THEN (IF first THEN <<>> ELSE <<",", " ">>)
              \o <<QT, k, QT, ":", " ">> \o EncValue(k, rec[k])
              \o EncFields(rec, i + 1, FALSE)
         ELSE EncFields(rec, i + 1, first)

\* json.dumps(jsonf)
Dumps(rec) == <<"{">> \o EncFields(rec, 1, TRUE) \o <<"}">>

UnescapeChar(c) == IF c = "n" THEN NL ELSE c

\* the string that starts after the opening quote at s[i - 1]
RECURSIVE ParseStr(_, _, _)
ParseStr(s, i, acc) ==
    IF s[i] = QT THEN [val |-> acc, next |-> i + 1]
    ELSE IF s[i] = BS THEN ParseStr(s, i + 2, Append(acc, UnescapeChar(s[i + 1])))
    ELSE ParseStr(s, i + 1, Append(acc, s[i]))

RECURSIVE ParseInt(_, _, _)
ParseInt(s, i, acc) ==
    IF i <= Len(s) /\ IsDigit(s[i])
    THEN ParseInt(s, i + 1, acc * 10 + DigitVal(s[i]))
    ELSE [val |-> acc, next |-> i]

RECURSIVE ParseObj(_, _, _)
ParseObj(s, i, acc) ==
    IF s[i] = "}" THEN acc
    ELSE LET k == s[i + 1]
             v == IF s[i + 5] = QT THEN ParseStr(s, i + 6, <<>>)
                  ELSE ParseInt(s, i + 5, 0)
             acc2 == (k :> v.val) @@ acc
         IN  IF s[v.next] = "," THEN ParseObj(s, v.next + 2, acc2) ELSE acc2

\* json.loads(line)
Loads(line) == ParseObj(line, 2, <<>>)

\* the lines a text file yields when iterated, each without its newline
NewlineAt(s) == {i \in 1..Len(s) : s[i] = NL}

\* where the k-th line ends: at its newline, or after the last character
LineEnd(s, k) ==
    IF k <= Cardinality(NewlineAt(s))
    THEN CHOOSE i \in NewlineAt(s) : Cardinality({j \in NewlineAt(s) : j <= i}) = k
    ELSE Len(s) + 1

SplitLines(s) ==
    LET n == Cardinality(NewlineAt(s))
             + (IF s # <<>> /\ s[Len(s)] # NL THEN 1 ELSE 0)
    IN  [k \in 1..n |->
            SubSeq(s, (IF k = 1 THEN 0 ELSE LineEnd(s, k - 1)) + 1, LineEnd(s, k) - 1)]

----------------------------------------------------------------------------
(* class DB *)

NewDB(name, mode) ==
    [name |-> name, mode |-> mode, pos |-> 0, buf |-> <<>>, closed |-> FALSE]

\* faulty variant: the file is opened to write, and loses what it held
DiskAfterOpen_Truncate(d, name) == (name :> <<>>) @@ d

\* DB.__init__: the file is there once the object is: open(.., 'a') creates a
\* missing file, and a failed open(.., 'r') creates an empty one first
DiskAfterOpen(d, name) == IF name \in DOMAIN d THEN d ELSE (name :> <<>>) @@ d

\* faulty variant: the line is written without its newline
InsertBuf_NoNewline(h, rec) == [h EXCEPT !.buf = @ \o Dumps(rec)]

\* DB.insert: one line written to the file object
InsertBuf(h, rec) == [h EXCEPT !.buf = @ \o Dumps(rec) \o <<NL>>]

\* what the file holds once the file object's buffer is written out
Flushed(d, h) == [d EXCEPT ![h.name] = @ \o h.buf]

\* the part of the file a read-mode file object has not read yet
Rest(d, h) == SubSeq(d[h.name], h.pos + 1, Len(d[h.name]))

AtEnd(d, h) == [h EXCEPT !.pos = Len(d[h.name])]

\* list(DB.loop()) on a read-mode object
LoopRecords(d, h) ==
    LET lines == SplitLines(Rest(d, h))
    IN  [i \in 1..Len(lines) |-> Loads(lines[i])]

\* the records of a file read from its start; a file that is not there is
\* created empty by DB(name, 'r')
Records(d, name) ==
    IF name \in DOMAIN d THEN LoopRecords(d, NewDB(name, "r")) ELSE <<>>

\* the content of a file that holds these records
RECURSIVE FileOf(_)
FileOf(recs) ==
    IF recs = <<>> THEN <<>> ELSE Dumps(Head(recs)) \o <<NL>> \o FileOf(Tail(recs))

----------------------------------------------------------------------------
(* DB on its own: one store "s", a writer "w" and a reader "r" *)

MaxInserts == 2

DBTexts ==
    { <<>>, <<"a">>, <<NL>>, <<BS, "n">>, <<QT, ",", " ">>, <<"a", BS, QT, "}">> }

DBIds == {7, 10}

DBRecords ==
    [tweet_id : DBIds, tweet_text : DBTexts]
    \cup [tweet_id : {7}, user_id : DBIds, tweet_text : {<<NL>>}, label : {F}]

NoDC == [id |-> "s"]

InitDB ==
    /\ disk \in {<<>>, ("s" :> <<>>)}
    /\ db = <<>>
    /\ dc = NoDC
    /\ user_ids = EmptyDict
    /\ query_ids = EmptyDict
    /\ call = [op |-> "-"]
    /\ ret = NoCall
    /\ log_ = <<>>
    /\ run = NoRun

DBFrame == UNCHANGED <<dc, user_ids, query_ids, run>>

\* DB("s", 'a')
DBOpenAppend ==
    /\ "w" \notin DOMAIN db
    /\ db' = ("w" :> NewDB("s", "a")) @@ db
    /\ disk' = DiskAfterOpen(disk, "s")
    /\ call' = [op |-> "open", h |-> "w"]
    /\ ret' = None
    /\ UNCHANGED log_
    /\ DBFrame

\* DB("s", 'r')
DBOpenRead ==
    /\ "r" \notin DOMAIN db
    /\ db' = ("r" :> NewDB("s", "r")) @@ db
    /\ disk' = DiskAfterOpen(disk, "s")
    /\ call' = [op |-> "open", h |-> "r"]
    /\ ret' = None
    /\ UNCHANGED log_
    /\ DBFrame

\* w.insert(rec); writing to a closed file raises ValueError
DBInsert(rec) ==
    /\ "w" \in DOMAIN db
    /\ Len(log_) < MaxInserts
    /\ call' = [op |-> "insert", h |-> "w"]
    /\ IF db["w"].closed
       THEN ret' = Ret("ValueError", <<>>) /\ UNCHANGED <<db, log_>>
       ELSE /\ db' = [db EXCEPT !["w"] = InsertBuf(@, rec)]
            /\ log_' = Append(log_, rec)
            /\ ret' = None
    /\ UNCHANGED disk
    /\ DBFrame

\* the file object writes its buffer out when the buffer is full
DBFlush ==
    /\ "w" \in DOMAIN db
    /\ db["w"].buf # <<>>
    /\ disk' = Flushed(disk, db["w"])
    /\ db' = [db EXCEPT !["w"].buf = <<>>]
    /\ UNCHANGED <<call, ret, log_>>
    /\ DBFrame

\* w.commit()
DBCommit ==
    /\ "w" \in DOMAIN db
    /\ ~db["w"].closed
    /\ disk' = Flushed(disk, db["w"])
    /\ db' = [db EXCEPT !["w"].buf = <<>>, !["w"].closed = TRUE]
    /\ call' = [op |-> "commit", h |-> "w"]
    /\ ret' = None
    /\ UNCHANGED log_
    /\ DBFrame

\* list(h.loop())
DBLoop(h) ==
    /\ h \in DOMAIN db
    /\ call' = [op |-> "loop", h |-> h, from |-> db[h].pos]
    /\ IF db[h].mode # "r"
       THEN ret' = AssertionError /\ UNCHANGED db
       ELSE /\ ret' = Ret("value", LoopRecords(disk, db[h]))
            /\ db' = [db EXCEPT ![h] = AtEnd(disk, @)]
    /\ UNCHANGED <<disk, log_>>
    /\ DBFrame

NextDB ==
    \/ DBOpenAppend
    \/ DBOpenRead
    \/ \E rec \in DBRecords : DBInsert(rec)
    \/ DBFlush
    \/ DBCommit
    \/ \E h \in {"w", "r"} : DBLoop(h)

SpecDB == InitDB /\ [][NextDB]_vars

\* C9: a reader of the store that iterates from the start of the log after the
\* writer has committed gets exactly the inserted records, in insertion order.
C9_RoundTrip ==
    (/\ call.op = "loop" /\ call.h = "r" /\ call.from = 0
     /\ "w" \in DOMAIN db /\ db["w"].closed)
    => ret = Ret("value", log_)

C9_Witness ==
    /\ call.op = "loop" /\ call.h = "r" /\ call.from = 0
    /\ "w" \in DOMAIN db /\ db["w"].closed
    /\ Len(log_) = 2
    /\ log_[1].tweet_text = <<BS, "n">>
    /\ log_[2].tweet_text = <<NL>>
    /\ ret = Ret("value", log_)

----------------------------------------------------------------------------
(* reconstruct_ids *)

\* d[k] = v on a dict
Put(d, k, v) == (k :> v) @@ d

Has(line, ks) == ks \subseteq DOMAIN line

NoIds == [user_ids |-> EmptyDict, query_ids |-> EmptyDict, raised |-> FALSE]

\* the except branch: user_ids[line['id']] = line['label']
ReconExcept(ids, line) ==
    IF Has(line, {"id", "label"})
    THEN [ids EXCEPT !.user_ids = Put(@, line["id"], line["label"])]
    ELSE [ids EXCEPT !.raised = TRUE]

\* the body of the for loop, for one line
ReconLine(ids, line) ==
    IF ~Has(line, {"user_id", "label"}) THEN ReconExcept(ids, line)
    ELSE LET ids2 == [ids EXCEPT !.user_ids = Put(@, line["user_id"], line["label"])]
         IN  IF Has(line, {"tweet_id", "query"})
             THEN [ids2 EXCEPT !.query_ids = Put(@, line["tweet_id"], line["query"])]
             ELSE ReconExcept(ids2, line)

\* return user_ids, query_ids, unless a KeyError left the loop
IdsResult(ids) ==
    IF ids.raised THEN KeyError
    ELSE Ret("value", [user_ids |-> ids.user_ids, query_ids |-> ids.query_ids])

RECURSIVE ReconLines(_, _)
ReconLines(ids, lines) ==
    IF lines = <<>> \/ ids.raised THEN ids
    ELSE ReconLines(ReconLine(ids, Head(lines)), Tail(lines))

\* uds.db.read() leaves the file object at the end of the file
AfterRead(d, h) == AtEnd(d, h)

\* the DB object the for loop iterates, on the disk d where both files exist
ReconSource(d, db_id, fix) ==
    LET uds == NewDB(fix, "r")
    IN  IF Rest(d, uds) = <<>> THEN NewDB(db_id, "r") ELSE AfterRead(d, uds)

\* the disk after reconstruct_ids: DB(..., 'r') creates the files it misses
ReconDisk(d, db_id, fix) ==
    LET d1 == DiskAfterOpen(d, fix)
    IN  IF Rest(d1, NewDB(fix, "r")) = <<>> THEN DiskAfterOpen(d1, db_id) ELSE d1

\* reconstruct_ids(db_id)
reconstruct_ids(d, db_id) ==
    LET fix == db_id \o "_fix"
        d2 == ReconDisk(d, db_id, fix)
        ids == ReconLines(NoIds, LoopRecords(d2, ReconSource(d2, db_id, fix)))
    IN  IdsResult(ids)

----------------------------------------------------------------------------
(* reconstruct_ids on the stores "twitter_gender" (raw hits) and "twitter_gender_fix" (corrected) *)

MaxStore == 2

SeqsUpTo(S, n) == UNION {[1..k -> S] : k \in 0..n}

Q1 == <<"q">>

ReconRecords ==
    [user_id : {1, 2}, tweet_id : {11, 12}, tweet_text : {<<"t">>},
     label : {F}, query : {Q1}]
    \cup [user_id : {1}, tweet_id : {11}, tweet_text : {<<"t">>},
          label : {M}, query : {Q1}]
    \cup [id : {3}, label : {M}]

\* the files of a store identifier: an empty store may also be no file yet
StoreFiles(name, recs) ==
    IF recs = <<>> THEN {<<>>, (name :> <<>>)} ELSE {(name :> FileOf(recs))}

InitRecon ==
    /\ \E raw \in SeqsUpTo(ReconRecords, MaxStore),
          fixed \in SeqsUpTo(ReconRecords, MaxStore) :
          \E a \in StoreFiles("twitter_gender", raw), b \in StoreFiles("twitter_gender_fix", fixed) :
              disk = a @@ b
    /\ db = <<>>
    /\ dc = [id |-> "twitter_gender"]
    /\ user_ids = EmptyDict
    /\ query_ids = EmptyDict
    /\ call = [op |-> "-"]
    /\ ret = NoCall
    /\ log_ = <<>>
    /\ run = NoRun

\* reconstruct_ids(self.id), as fetch_user_tweets calls it on empty user_ids
ReconstructIds ==
    /\ call.op = "-"
    /\ user_ids = EmptyDict
    /\ ret' = reconstruct_ids(disk, dc.id)
    /\ disk' = ReconDisk(disk, dc.id, dc.id \o "_fix")
    /\ call' = [op |-> "reconstruct_ids"]
    /\ UNCHANGED <<db, dc, user_ids, query_ids, log_, run>>

\* self.user_ids, self.query_ids = reconstruct_ids(self.id)
AssignIds ==
    /\ call.op = "reconstruct_ids"
    /\ ret.kind = "value"
    /\ user_ids' = ret.val.user_ids
    /\ query_ids' = ret.val.query_ids
    /\ call' = [op |-> "assign_ids"]
    /\ UNCHANGED <<disk, db, dc, ret, log_, run>>

NextRecon == ReconstructIds \/ AssignIds

SpecRecon == InitRecon /\ [][NextRecon]_vars

\* C1: with a non-empty corrected store and a raw store of other content,
\* reconstruct_ids returns the maps parsed from the corrected store's records.
C1_PrefersCorrected ==
    (/\ call.op = "reconstruct_ids"
     /\ Records(disk, "twitter_gender_fix") # <<>>
     /\ Records(disk, "twitter_gender") # Records(disk, "twitter_gender_fix"))
    => ret = IdsResult(ReconLines(NoIds, Records(disk, "twitter_gender_fix")))

\* the fallback: with an empty corrected store the raw store is parsed
C1_FallbackToRaw ==
    (call.op = "reconstruct_ids" /\ Records(disk, "twitter_gender_fix") = <<>>)
    => ret = IdsResult(ReconLines(NoIds, Records(disk, "twitter_gender")))

----------------------------------------------------------------------------
(* DistantCollection.flip_label and correct_query_tweets *)

query_tails == {" ", ".", "!", ",", ":", ";"}

\* str.strip() of a string that is not all blanks
Strip(x) ==
    LET ks == {i \in 1..Len(x) : x[i] # " "}
    IN  IF ks = {} THEN <<>>
        ELSE SubSeq(x, CHOOSE i \in ks : \A j \in ks : i <= j,
                       CHOOSE i \in ks : \A j \in ks : j <= i)

\* faulty variant: the filter substrings are stripped of blanks before the test
Vetoed_Stripped(o, text) == \E it \in o.filter : In(Strip(it), text)

\* any([it in text for it in self.filter])
Vetoed(o, text) == AnyIn(o.filter, text)

\* faulty variant: the query is looked for without a boundary character after it
Anchored_NoTail(query, text) == In(query, text)

\* any([query + affix in text for affix in query_tails])
Anchored(query, text) == \E affix \in query_tails : In(query \o <<affix>>, text)

\* any([f in text for f in self.flip_any])
FlipAnyHit(o, text) == AnyIn(o.flip_any, text)

\* faulty variant: a flip_prefix substring is looked for anywhere in the text
FlipPrefixHit_Anywhere(o, query, text) == AnyIn(o.flip_prefix, text)

\* any([p + query in text for p in self.flip_prefix])
FlipPrefixHit(o, query, text) == \E p \in o.flip_prefix : In(p \o query, text)

\* faulty variant: the flipped label is written in upper case
Flip_Upper(label) == IF label = F THEN <<"M">> ELSE <<"F">>

\* 'm' if label == 'f' else 'f'
Flip(label) == IF label = F THEN M ELSE F

\* faulty variant: "if" in place of "elif", so that the two rules flip twice
Decide_Twice(o, label, query, text) ==
    IF Anchored(query, text)
    THEN LET l1 == IF FlipAnyHit(o, text) THEN Flip(label) ELSE label
         IN  IF FlipPrefixHit(o, query, text) THEN Flip(l1) ELSE l1
    ELSE label

\* the label after the rules of lines 254-258
Decide(o, label, query, text) ==
    IF Anchored(query, text)
    THEN IF FlipAnyHit(o, text) THEN Flip(label)
         ELSE IF FlipPrefixHit(o, query, text) THEN Flip(label)
         ELSE label
    ELSE label

\* faulty variant: the two lookups are made before the filter test
flip_label_LookupFirst(o, uids, qids, uid, tid, text) ==
    IF uid \notin DOMAIN uids THEN KeyError
    ELSE IF tid \notin DOMAIN qids THEN KeyError
    ELSE IF Vetoed(o, text) THEN None
    ELSE Ret("value", Decide(o, uids[uid], qids[tid], text))

\* faulty variant: dict.get in place of indexing, so that a missing key gives None
flip_label_Get(o, uids, qids, uid, tid, text) ==
    IF Vetoed(o, text) THEN None
    ELSE IF uid \notin DOMAIN uids \/ tid \notin DOMAIN qids THEN None
    ELSE Ret("value", Decide(o, uids[uid], qids[tid], text))

\* self.flip_label(uid, tid, text), on the maps uids and qids
flip_label(o, uids, qids, uid, tid, text) ==
    IF Vetoed(o, text) THEN None
    ELSE IF uid \notin DOMAIN uids THEN KeyError
    ELSE IF tid \notin DOMAIN qids THEN KeyError
    ELSE Ret("value", Decide(o, uids[uid], qids[tid], text))

\* faulty variant: the record is written with the label it had
CorrectLine_RawLabel(o, uids, qids, st, line) ==
    IF ~Has(line, {"user_id", "tweet_id", "tweet_text"})
    THEN [st EXCEPT !.raised = TRUE]
    ELSE LET new_label == flip_label(o, uids, qids, line["user_id"],
                                     line["tweet_id"], Lower(line["tweet_text"]))
         IN  IF new_label = KeyError THEN [st EXCEPT !.raised = TRUE]
             ELSE IF Truthy(new_label)
             THEN [st EXCEPT !.h = InsertBuf(@, line)]
             ELSE st

\* one turn of the loop of correct_query_tweets; st = [h, raised]
CorrectLine(o, uids, qids, st, line) ==
    IF ~Has(line, {"user_id", "tweet_id", "tweet_text"})
    THEN [st EXCEPT !.raised = TRUE]
    ELSE LET new_label == flip_label(o, uids, qids, line["user_id"],
                                     line["tweet_id"], Lower(line["tweet_text"]))
         IN  IF new_label = KeyError THEN [st EXCEPT !.raised = TRUE]
             ELSE IF Truthy(new_label)
             THEN [st EXCEPT !.h = InsertBuf(@, Put(line, "label", new_label.val))]
             ELSE st

RECURSIVE CorrectLines(_, _, _, _, _)
CorrectLines(o, uids, qids, st, lines) ==
    IF lines = <<>> \/ st.raised THEN st
    ELSE CorrectLines(o, uids, qids,
                      CorrectLine(o, uids, qids, st, Head(lines)), Tail(lines))

----------------------------------------------------------------------------
(* The label decision on one stored hit: the collection holds the hit      *)
(* (user 1, tweet 11) in its raw store, as after get_queries and the       *)
(* commits of fetch_query_tweets.                                          *)

MaxTextLen == 3

FlipChars == {"q", " ", "g", "x", "R"}

Qq == <<"q">>

AbstractInputs ==
    [text : SeqsUpTo(FlipChars, MaxTextLen), query : {Qq}, label : {F, M},
     filter : {{}, {<<"r">>}}, flip_any : {{}, {<<"x">>}},
     flip_prefix : {{}, {<<"g">>}}]

AGirl == <<"a", " ", "g", "i", "r", "l">>
ImAGirl == <<"i", "'", "m", " ", "a", " ", "g", "i", "r", "l">>
Guess == <<" ", "g", "u", "e", "s", "s", " ">>
AccordingTo == <<"a", "c", "c", "o", "r", "d", "i", "n", "g", " ", "t", "o">>
RtSpace == <<"r", "t", " ">>
ColonSpace == <<":", " ">>

TextGuess == <<"i", " ", "g", "u", "e", "s", "s", " ", "i", "'", "m", " ", "a", " ", "g", "i", "r", "l", " ", "n", "o", "w">>
TextAccording == <<"a", "c", "c", "o", "r", "d", "i", "n", "g", " ", "t", "o", " ", "h", "i", "m", " ", "i", "'", "m", " ", "a", " ", "g", "i", "r", "l">>
TextAccordingDot == <<"a", "c", "c", "o", "r", "d", "i", "n", "g", " ", "t", "o", " ", "h", "i", "m", " ", "i", "'", "m", " ", "a", " ", "g", "i", "r", "l", ".">>
TextRt == <<"r", "t", ":", " ", "i", "'", "m", " ", "a", " ", "g", "i", "r", "l">>
TextAll == <<"r", "t", " ", "i", " ", "g", "u", "e", "s", "s", " ", "i", "'", "m", " ", "a", " ", "g", "i", "r", "l", ",", " ", "a", "c", "c", "o", "r", "d", "i", "n", "g", " ", "t", "o", " ", "h", "i", "m">>
TextRtSpace == <<"r", "t", " ", "i", "'", "m", " ", "a", " ", "g", "i", "r", "l">>

ExampleInputs ==
    [text : {TextGuess, TextAccording, TextAccordingDot, TextRt, TextRtSpace,
             TextAll},
     query : {AGirl, ImAGirl}, label : {F},
     filter : {{}, {RtSpace}, {RtSpace, ColonSpace}},
     flip_any : {{}, {AccordingTo}}, flip_prefix : {{}, {Guess}}]

FlipInputs == AbstractInputs \cup ExampleInputs

HitRecord(uid, tid, text, label, query) ==
    [user_id |-> uid, tweet_id |-> tid, tweet_text |-> text,
     label |-> label, query |-> query]

\* DistantCollection.__init__, then get_queries, hits.commit(), users.commit()
Collected(id) ==
    [hits |-> [NewDB(id, "a") EXCEPT !.closed = TRUE],
     users |-> [NewDB(id \o "_usr", "a") EXCEPT !.closed = TRUE],
     messages |-> NewDB(id \o "_msg", "a"),
     hit_fix |-> NewDB(id \o "_fix", "a"),
     msg_fix |-> NewDB(id \o "_msg_fix", "a")]

NewDC(id, queries, filter, flip_any, flip_prefix, clean_level) ==
    [id |-> id, queries |-> queries, filter |-> filter, flip_any |-> flip_any,
     flip_prefix |-> flip_prefix, clean_level |-> clean_level]

EmptyFiles(id) ==
    [n \in {id, id \o "_usr", id \o "_msg", id \o "_fix", id \o "_msg_fix"} |-> <<>>]

InitFlip ==
    \E in \in FlipInputs, knownUser \in BOOLEAN, knownTweet \in BOOLEAN :
        /\ dc = NewDC("twitter_gender", (in.query :> in.label), in.filter, in.flip_any,
                      in.flip_prefix, "messages")
        /\ db = Collected("twitter_gender")
        /\ disk = [EmptyFiles("twitter_gender") EXCEPT
                     !["twitter_gender"] = FileOf(<<HitRecord(1, 11, in.text, in.label, in.query)>>)]
        /\ user_ids = IF knownUser THEN (1 :> in.label) ELSE EmptyDict
        /\ query_ids = IF knownTweet THEN (11 :> in.query) ELSE EmptyDict
        /\ call = [op |-> "-"]
        /\ ret = NoCall
        /\ log_ = <<>>
        /\ run = NoRun

\* self.flip_label(line['user_id'], line['tweet_id'], line['tweet_text'].lower())
FlipLabel(line) ==
    /\ call' = [op |-> "flip_label", uid |-> line["user_id"],
                tid |-> line["tweet_id"], text |-> Lower(line["tweet_text"])]
    /\ ret' = flip_label(dc, user_ids, query_ids, line["user_id"],
                         line["tweet_id"], Lower(line["tweet_text"]))
    /\ UNCHANGED <<disk, db, dc, user_ids, query_ids, log_, run>>

\* self.correct_query_tweets(): the pass over the raw store, then the commit,
\* which a KeyError keeps from happening
CorrectQueryTweets ==
    /\ db["hits"].closed
    /\ ~db["hit_fix"].closed
    /\ LET st == CorrectLines(dc, user_ids, query_ids,
                              [h |-> db["hit_fix"], raised |-> FALSE],
                              Records(disk, dc.id))
       IN  IF st.raised
           THEN /\ db' = [db EXCEPT !["hit_fix"] = st.h]
                /\ ret' = KeyError
                /\ UNCHANGED disk
           ELSE /\ db' = [db EXCEPT !["hit_fix"] = [st.h EXCEPT !.buf = <<>>,
                                                             !.closed = TRUE]]
                /\ disk' = Flushed(disk, st.h)
                /\ ret' = None
    /\ call' = [op |-> "correct_query_tweets"]
    /\ UNCHANGED <<dc, user_ids, query_ids, log_, run>>

NextFlip ==
    \/ \E line \in Range(Records(disk, dc.id)) : FlipLabel(line)
    \/ CorrectQueryTweets

SpecFlip == InitFlip /\ [][NextFlip]_vars

----------------------------------------------------------------------------
(* Claims on flip_label and correct_query_tweets *)

\* the hit the raw store holds, and the state of a call of flip_label on it
Hit == Records(disk, "twitter_gender")[1]
Called == call.op = "flip_label"
KnownIds == call.uid \in DOMAIN user_ids /\ call.tid \in DOMAIN query_ids
Value(label) == Ret("value", label)

\* C2: a text that contains a filter substring gets no decision, whatever the
\* query, the flip rules and the two maps are.
C2_FilterVeto ==
    (Called /\ AnyIn(dc.filter, call.text)) => ret = None

C2_Witness ==
    /\ Called /\ AnyIn(dc.filter, call.text) /\ KnownIds
    /\ AnyIn(dc.flip_any, call.text)
    /\ \E p \in dc.flip_prefix, a \in query_tails :
          In(p \o query_ids[call.tid] \o <<a>>, call.text)
    /\ ret = None

\* both flip rules match: flip_any anywhere in the text, and a flip_prefix
\* substring right before the query that a boundary character follows
BothFlipRules ==
    /\ Called /\ KnownIds
    /\ user_ids[call.uid] \in {F, M}
    /\ AnyIn(dc.flip_any, call.text)
    /\ \E p \in dc.flip_prefix, a \in query_tails :
          In(p \o query_ids[call.tid] \o <<a>>, call.text)

\* C3 as stated: when both flip rules match, the result is the single flip.
C3_SingleFlip ==
    BothFlipRules => ret = Value(Flip(user_ids[call.uid]))

\* C3 amended: when both flip rules match and no filter substring occurs in
\* the text, the result is the single flip of the distant label.
C3_SingleFlipUnlessVetoed ==
    (BothFlipRules /\ ~AnyIn(dc.filter, call.text))
    => ret = Value(Flip(user_ids[call.uid]))

C3_Witness ==
    /\ BothFlipRules /\ ~AnyIn(dc.filter, call.text)
    /\ user_ids[call.uid] = F
    /\ ret = Value(M)

\* the scenario of C4, for a stored query
GuessScenario(query) ==
    /\ Called /\ KnownIds
    /\ call.text = TextGuess
    /\ query_ids[call.tid] = query
    /\ user_ids[call.uid] = F
    /\ dc.filter = {} /\ dc.flip_any = {}
    /\ Guess \in dc.flip_prefix

\* C4 as stated: query "a girl", label f, text "i guess i'm a girl now" and
\* flip_prefix with " guess " give the flipped label m.
C4_GuessFlips == GuessScenario(AGirl) => ret = Value(M)

\* C4 amended: in that scenario the label f is kept, since " guess " does not
\* come right before "a girl"; with the stored query "i'm a girl" it is m.
C4_GuessKeptUnlessAdjacent ==
    /\ GuessScenario(AGirl) => ret = Value(F)
    /\ GuessScenario(ImAGirl) => ret = Value(M)

C4_Witness == GuessScenario(AGirl) /\ ret = Value(F)

\* the scenario of C5, for a text
AccordingScenario(text) ==
    /\ Called /\ KnownIds
    /\ call.text = text
    /\ query_ids[call.tid] = AGirl
    /\ user_ids[call.uid] = F
    /\ AccordingTo \in dc.flip_any
    /\ ~\E p \in dc.flip_prefix : In(p \o AGirl, text)
    /\ ~AnyIn(dc.filter, text)

\* C5 as stated: query "a girl", label f, text "according to him i'm a girl"
\* and flip_any with "according to" give the flipped label m.
C5_AccordingFlips == AccordingScenario(TextAccording) => ret = Value(M)

\* C5 amended: in that scenario the label f is kept, since the query ends the
\* text and no boundary character follows it; with the text
\* "according to him i'm a girl." the label is m.
C5_AccordingKeptAtEnd ==
    /\ AccordingScenario(TextAccording) => ret = Value(F)
    /\ AccordingScenario(TextAccordingDot) => ret = Value(M)

C5_Witness == AccordingScenario(TextAccording) /\ ret = Value(F)

\* the scenario of C6: the hit "rt: i'm a girl" under a filter with "rt "
RtScenario ==
    /\ RtSpace \in dc.filter
    /\ 1 \in DOMAIN user_ids /\ user_ids[1] = F
    /\ 11 \in DOMAIN query_ids /\ query_ids[11] = AGirl
    /\ Hit["tweet_text"] = TextRt

Corrected == Records(disk, "twitter_gender_fix")

\* C6 as stated: in that scenario there is no decision, and the correction pass
\* drops the hit.
C6_RtDropped ==
    RtScenario => /\ Called => ret = None
                  /\ call.op = "correct_query_tweets" => Corrected = <<>>

\* C6 amended: with the filter "rt " alone the label f is kept and the hit is
\* written to the corrected store, as "rt " is no substring of the text; there
\* is no decision and the hit is dropped when the filter also holds ": ".
C6_RtDroppedByColon ==
    RtScenario =>
        /\ Called => ret = (IF ColonSpace \in dc.filter THEN None ELSE Value(F))
        /\ call.op = "correct_query_tweets" =>
              Corrected = (IF ColonSpace \in dc.filter THEN <<>> ELSE <<Hit>>)

C6_Witness ==
    /\ RtScenario /\ dc.filter = {RtSpace}
    /\ call.op = "correct_query_tweets"
    /\ Corrected = <<Hit>>

MissingKey ==
    Called /\ (call.uid \notin DOMAIN user_ids \/ call.tid \notin DOMAIN query_ids)

\* C10 as stated: a call with a user_id or tweet_id that is no key of its map
\* fails with a lookup error, whatever the text and the rule sets are.
C10_MissingKeyRaises == MissingKey => ret = KeyError

\* C10 amended: such a call fails with a lookup error unless the text contains
\* a filter substring; then it returns no decision before any lookup.
C10_MissingKeyRaisesUnlessVetoed ==
    MissingKey => ret = (IF AnyIn(dc.filter, call.text) THEN None ELSE KeyError)

C10_Witness ==
    /\ MissingKey /\ ~AnyIn(dc.filter, call.text)
    /\ call.tid \notin DOMAIN query_ids
    /\ call.uid \in DOMAIN user_ids
    /\ ret = KeyError

----------------------------------------------------------------------------
(* DistantCollection.remove_query_tweets *)

\* faulty variant: the text test is made whatever the clean_level is
Keep_TextOnly(o, qids, line) ==
    ~\E query \in DOMAIN o.queries : In(query, Lower(line["tweet_text"]))

\* the test that lets a message into msg_fix (lines 239-245)
Keep(o, qids, line) ==
    IF o.clean_level = "messages"
    THEN ~\E query \in DOMAIN o.queries : In(query, Lower(line["tweet_text"]))
    ELSE line["tweet_id"] \notin DOMAIN qids

\* one turn of the loop of remove_query_tweets; st = [h, raised]
RemoveLine(o, uids, qids, st, line) ==
    IF \/ ~Has(line, {"user_id"}) \/ line["user_id"] \notin DOMAIN uids
       \/ ~Has(line, IF o.clean_level = "messages" THEN {"tweet_text"} ELSE {"tweet_id"})
    THEN [st EXCEPT !.raised = TRUE]
    ELSE LET line2 == Put(line, "distant_label", uids[line["user_id"]])
         IN  IF Keep(o, qids, line2)
             THEN [st EXCEPT !.h = InsertBuf(@, line2)]
             ELSE st

RECURSIVE RemoveLines(_, _, _, _, _)
RemoveLines(o, uids, qids, st, lines) ==
    IF lines = <<>> \/ st.raised THEN st
    ELSE RemoveLines(o, uids, qids,
                     RemoveLine(o, uids, qids, st, Head(lines)), Tail(lines))

----------------------------------------------------------------------------
(* The history-cleaning pass over a stored timeline, as after get_timelines *)
(* and messages.commit() in fetch_user_tweets.                             *)

MaxMsgs == 2

CleanTexts == { <<"a">>, <<"m">>, <<"M">>, <<"a", "m">> }

CleanMessages == [tweet_id : {11, 12}, user_id : {1}, tweet_text : CleanTexts]

\* Query Tables, the queries as formatted
CleanQueryTables ==
    { (<<"m">> :> F) @@ (<<"a", "m">> :> M), (<<"M">> :> F) }

\* query_ids after a collection under the table: the hit tweets
CleanQueryIds(queries) ==
    LET q == CHOOSE x \in DOMAIN queries : TRUE
    IN  {EmptyDict, (11 :> q), (11 :> q) @@ (12 :> q)}

InitClean ==
    \E queries \in CleanQueryTables, level \in {"messages", "query"},
       msgs \in SeqsUpTo(CleanMessages, MaxMsgs), knownUser \in BOOLEAN :
        /\ dc = NewDC("twitter_gender", queries, {}, {}, {}, level)
        /\ db = [Collected("twitter_gender") EXCEPT !["messages"].closed = TRUE]
        /\ disk = [EmptyFiles("twitter_gender") EXCEPT !["twitter_gender_msg"] = FileOf(msgs)]
        /\ user_ids = IF knownUser THEN (1 :> F) ELSE EmptyDict
        /\ query_ids \in CleanQueryIds(queries)
        /\ call = [op |-> "-"]
        /\ ret = NoCall
        /\ log_ = <<>>
        /\ run = NoRun

\* self.remove_query_tweets()
RemoveQueryTweets ==
    /\ db["messages"].closed
    /\ ~db["msg_fix"].closed
    /\ call.op = "-"
    /\ LET st == RemoveLines(dc, user_ids, query_ids,
                             [h |-> db["msg_fix"], raised |-> FALSE],
                             Records(disk, dc.id \o "_msg"))
       IN  /\ db' = [db EXCEPT !["msg_fix"] = st.h]
           /\ ret' = IF st.raised THEN KeyError ELSE None
    /\ call' = [op |-> "remove_query_tweets"]
    /\ UNCHANGED <<disk, dc, user_ids, query_ids, log_, run>>

\* the file object of msg_fix writes its buffer out
MsgFixFlush ==
    /\ db["msg_fix"].buf # <<>>
    /\ disk' = Flushed(disk, db["msg_fix"])
    /\ db' = [db EXCEPT !["msg_fix"].buf = <<>>]
    /\ UNCHANGED <<dc, user_ids, query_ids, call, ret, log_, run>>

\* the script is run again on the stores it has left: the file objects of the
\* first run are closed at its exit, a new DistantCollection opens msg_fix to
\* append, and remove_query_tweets passes over the same message store with
\* the same maps and clean_level
RemoveQueryTweetsAgain ==
    /\ call.op = "remove_query_tweets"
    /\ ret = None
    /\ LET name == dc.id \o "_msg_fix"
           d1 == DiskAfterOpen(Flushed(disk, db["msg_fix"]), name)
           st == RemoveLines(dc, user_ids, query_ids,
                             [h |-> NewDB(name, "a"), raised |-> FALSE],
                             Records(d1, dc.id \o "_msg"))
       IN  /\ disk' = d1
           /\ db' = [db EXCEPT !["msg_fix"] = st.h]
           /\ ret' = IF st.raised THEN KeyError ELSE None
           /\ call' = [op |-> "remove_query_tweets again",
                       first |-> Records(d1, name)]
    /\ UNCHANGED <<dc, user_ids, query_ids, log_, run>>

NextClean == RemoveQueryTweets \/ MsgFixFlush \/ RemoveQueryTweetsAgain

SpecClean == InitClean /\ [][NextClean]_vars

\* the records written to the corrected message store, flushed or not
MsgFix == Records(Flushed(disk, db["msg_fix"]), "twitter_gender_msg_fix")
Msgs == Records(disk, "twitter_gender_msg")
Cleaned == call.op = "remove_query_tweets" /\ ret = None

\* the messages that pass a test, each with its distant_label, in order
Labelled(m) == Put(m, "distant_label", user_ids[m["user_id"]])

Kept(msgs, Test(_)) ==
    LET sel == SelectSeq(msgs, Test)
    IN  [i \in 1..Len(sel) |-> Labelled(sel[i])]

\* some configured query is a case-insensitive substring of the text
MentionsQuery(m) ==
    \E query \in DOMAIN dc.queries : In(Lower(query), Lower(m["tweet_text"]))

NoMention(m) == ~MentionsQuery(m)
NotAHit(m) == m["tweet_id"] \notin DOMAIN query_ids

\* C7: at 'messages' granularity the corrected message store holds exactly the
\* messages of which no configured query is a case-insensitive substring.
C7_MessagesLevel ==
    (Cleaned /\ dc.clean_level = "messages") => MsgFix = Kept(Msgs, NoMention)

\* what the pass would write at 'messages' granularity
AtMessagesLevel ==
    Records(Flushed(EmptyFiles("twitter_gender"),
                    RemoveLines([dc EXCEPT !.clean_level = "messages"], user_ids,
                                query_ids, [h |-> NewDB("twitter_gender_msg_fix", "a"),
                                            raised |-> FALSE], Msgs).h),
            "twitter_gender_msg_fix")

----------------------------------------------------------------------------
(* Live collection: fetch_query_tweets, then fetch_user_tweets, against the *)
(* search and timeline endpoints of the API.  A cursor delivers the pages   *)
(* of one request in order; a request may be refused for the rate limit,    *)
(* and the cursor then stands where it stood.                               *)

\* rate-limit refusals and failing statements of the inner try, per run
MaxRateLimits == 1
MaxFailures == 1

\* a status object of the API: tweet.id, tweet.user.id, tweet.text
Tweet(id, user, text) == [id |-> id, user |-> user, text |-> text]

Qa == <<"q">>
Qb == <<"b">>

\* the query as get_queries hands it to the search endpoint and to get_users
Quoted(query) == <<QT>> \o query \o <<QT>>

\* what the endpoints hold: the result pages of each search, the timeline
\* pages of each user.  User 1 is hit under both queries.
ApiWorlds ==
    { [search |-> (Quoted(Qa) :> << <<Tweet(11, 1, <<"q">>), Tweet(12, 2, <<"q", " ", "x">>)>>,
                                    <<Tweet(14, 2, <<"a", " ", "q">>)>> >>)
                  @@ (Quoted(Qb) :> << <<Tweet(13, u, <<"b">>)>> >>),
       timeline |-> (1 :> << <<Tweet(11, 1, <<"q">>), Tweet(21, 1, <<"a">>)>>,
                             <<Tweet(22, 1, t)>> >>)
                    @@ (2 :> << <<Tweet(12, 2, <<"q", " ", "x">>)>> >>)
                    @@ (3 :> << <<Tweet(13, 3, <<"b">>)>> >>)]
      : u \in {1, 3}, t \in {<<"a">>, <<"q">>} }

\* the statements of the inner try of get_users that may raise
Failures == {"tweet.user.id", "tweet.id", "users.insert", "hits.insert"}

\* faulty variant: the tweet is bound to its query before the user is labelled
GetUsersTry_QueryFirst(st, tweet, label, query, fail) ==
    IF fail = "tweet.id" THEN st
    ELSE LET a == [st EXCEPT !.query_ids = Put(@, tweet.id, query)]
             b == [a EXCEPT !.user_ids = Put(@, tweet.user, label),
                            !.keys = IF tweet.user \in DOMAIN st.user_ids
                                     THEN @ ELSE Append(@, tweet.user)]
             c == [b EXCEPT !.users = InsertBuf(@, [id |-> tweet.user])]
             d == [c EXCEPT !.hits = InsertBuf(@, HitRecord(tweet.user, tweet.id,
                                                           tweet.text, label, query))]
         IN  CASE fail = "tweet.user.id" -> a
               [] fail = "users.insert" -> b
               [] fail = "hits.insert" -> c
               [] OTHER -> d

\* the inner try of get_users on one tweet (lines 279-289); st holds the two
\* maps, the key order of user_ids and the two stores; the statement `fail'
\* raises, which the except clause logs
GetUsersTry(st, tweet, label, query, fail) ==
    IF fail = "tweet.user.id" THEN st
    ELSE LET a == [st EXCEPT !.user_ids = Put(@, tweet.user, label),
                             !.keys = IF tweet.user \in DOMAIN st.user_ids
                                      THEN @ ELSE Append(@, tweet.user)]
             b == [a EXCEPT !.query_ids = Put(@, tweet.id, query)]
             c == [b EXCEPT !.users = InsertBuf(@, [id |-> tweet.user])]
             d == [c EXCEPT !.hits = InsertBuf(@, HitRecord(tweet.user, tweet.id,
                                                           tweet.text, label, query))]
         IN  CASE fail = "tweet.id" -> a
               [] fail = "users.insert" -> b
               [] fail = "hits.insert" -> c
               [] OTHER -> d

\* DistantCollection.__init__: the five stores, opened to append
Opened(id) ==
    [hits |-> NewDB(id, "a"),
     users |-> NewDB(id \o "_usr", "a"),
     messages |-> NewDB(id \o "_msg", "a"),
     hit_fix |-> NewDB(id \o "_fix", "a"),
     msg_fix |-> NewDB(id \o "_msg_fix", "a")]

\* self.max, and the key order of the dict self.queries
LiveDC(keys, labels, mode) ==
    NewDC("twitter_gender", [i \in Range(keys) |-> labels[i]],
          {<<"r">>}, {<<"x">>}, {<<"g">>}, "messages")
    @@ [max |-> IF mode = "live" THEN 0 ELSE 1, keys |-> keys]

InitLive ==
    \E api \in ApiWorlds, mode \in {"live", "test"} :
        /\ dc = LiveDC(<<Qa, Qb>>, (Qa :> F) @@ (Qb :> M), mode)
        /\ db = Opened("twitter_gender")
        /\ disk = EmptyFiles("twitter_gender")
        /\ user_ids = EmptyDict
        /\ query_ids = EmptyDict
        /\ call = [op |-> "fetch_query_tweets"]
        /\ ret = NoCall
        /\ log_ = <<>>
        /\ run = [pc |-> "get_queries", api |-> api, qi |-> 1, query |-> <<>>,
                  label |-> <<>>, cursor |-> 0, page |-> <<>>, keys |-> <<>>,
                  ui |-> 1, user |-> 0, limits |-> MaxRateLimits,
                  failures |-> MaxFailures, slept |-> 0,
                  searched |-> <<>>, timelined |-> <<>>]

LiveFrame == UNCHANGED <<dc, ret, log_>>

\* get_queries, the head of its loop over self.queries.items() (lines 300-304)
GetQueries ==
    /\ run.pc = "get_queries"
    /\ run' = IF run.qi <= Len(dc.keys)
              THEN [run EXCEPT !.pc = "get_users",
                               !.query = Quoted(dc.keys[run.qi]),
                               !.label = dc.queries[dc.keys[run.qi]],
                               !.cursor = 0, !.page = <<>>]
              ELSE [run EXCEPT !.pc = "commit"]
    /\ call' = [op |-> "get_queries"]
    /\ UNCHANGED <<disk, db, user_ids, query_ids>>
    /\ LiveFrame

\* faulty variant: get_queries goes on to the next query whatever self.max is
GetUsersReturn_NoBreak(r, max) == [r EXCEPT !.pc = "get_queries", !.qi = @ + 1]

\* get_users returns to get_queries, which leaves its loop if self.max is set
GetUsersReturn(r, max) ==
    IF max = 1 THEN [r EXCEPT !.pc = "commit"]
    ELSE [r EXCEPT !.pc = "get_queries", !.qi = @ + 1]

\* the request for a page is refused: the error is logged, the script sleeps
\* 300 seconds and get_users is called again on the same cursor
GetUsersRateLimit ==
    /\ run.pc = "get_users"
    /\ run.limits > 0
    /\ run' = [run EXCEPT !.limits = @ - 1, !.slept = 300]
    /\ call' = [op |-> "get_users"]
    /\ UNCHANGED <<disk, db, user_ids, query_ids>>
    /\ LiveFrame

\* for page in cursor.pages(): the next page, or the end of the results
GetUsersPage ==
    /\ run.pc = "get_users"
    /\ LET pages == run.api.search[run.query]
       IN  run' = IF run.cursor < Len(pages)
                  THEN [run EXCEPT !.pc = "get_users.page",
                                   !.cursor = @ + 1,
                                   !.page = pages[run.cursor + 1],
                                   !.searched = Append(@, [query |-> run.query,
                                                           page |-> run.cursor + 1])]
                  ELSE GetUsersReturn(run, dc.max)
    /\ call' = [op |-> "get_users"]
    /\ UNCHANGED <<disk, db, user_ids, query_ids>>
    /\ LiveFrame

\* for tweet in page: the inner try on the next tweet; after the last tweet
\* of the page, the break if self.max is set (lines 290-291)
GetUsersTweet(fail) ==
    /\ run.pc = "get_users.page"
    /\ fail # "none" => run.failures > 0
    /\ LET st == GetUsersTry([user_ids |-> user_ids, query_ids |-> query_ids,
                              keys |-> run.keys, users |-> db["users"],
                              hits |-> db["hits"]],
                             Head(run.page), run.label, run.query, fail)
           r == [run EXCEPT !.keys = st.keys, !.page = Tail(@),
                            !.failures = IF fail = "none" THEN @ ELSE @ - 1]
       IN  /\ user_ids' = st.user_ids
           /\ query_ids' = st.query_ids
           /\ db' = [db EXCEPT !["users"] = st.users, !["hits"] = st.hits]
           /\ run' = IF Tail(run.page) # <<>> THEN r
                     ELSE IF dc.max = 1 THEN GetUsersReturn(r, dc.max)
                     ELSE [r EXCEPT !.pc = "get_users"]
    /\ call' = [op |-> "get_users"]
    /\ UNCHANGED disk
    /\ LiveFrame

\* fetch_query_tweets after get_queries: hits.commit(), users.commit(),
\* correct_query_tweets() (lines 311-313)
FetchQueryTweetsEnd ==
    /\ run.pc = "commit"
    /\ LET d1 == Flushed(Flushed(disk, db["hits"]), db["users"])
           st == CorrectLines(dc, user_ids, query_ids,
                              [h |-> db["hit_fix"], raised |-> FALSE],
                              Records(d1, dc.id))
           closed == [db EXCEPT !["hits"].buf = <<>>, !["hits"].closed = TRUE,
                                !["users"].buf = <<>>, !["users"].closed = TRUE]
       IN  IF st.raised
           THEN /\ db' = [closed EXCEPT !["hit_fix"] = st.h]
                /\ disk' = d1
                /\ ret' = KeyError
                /\ run' = [run EXCEPT !.pc = "raised"]
           ELSE /\ db' = [closed EXCEPT !["hit_fix"] = [st.h EXCEPT !.buf = <<>>,
                                                                  !.closed = TRUE]]
                /\ disk' = Flushed(d1, st.h)
                /\ ret' = None
                /\ run' = [run EXCEPT !.pc = "fetched"]
    /\ call' = [op |-> "fetch_query_tweets"]
    /\ UNCHANGED <<dc, user_ids, query_ids, log_>>

\* the order of the keys of user_ids as reconstruct_ids inserts them
RECURSIVE KeyOrder(_, _)
KeyOrder(keys, lines) ==
    IF lines = <<>> THEN keys
    ELSE LET line == Head(lines)
             k == IF Has(line, {"user_id"}) THEN line["user_id"] ELSE line["id"]
         IN  KeyOrder(IF k \in Range(keys) THEN keys ELSE Append(keys, k), Tail(lines))

\* fetch_user_tweets up to get_timelines (lines 344-349): empty user_ids fail
\* the assertion and are reconstructed from the stores
FetchUserTweets ==
    /\ run.pc = "fetched"
    /\ IF user_ids # EmptyDict
       THEN /\ run' = [run EXCEPT !.pc = "get_timelines", !.ui = 1]
            /\ UNCHANGED <<disk, user_ids, query_ids, ret>>
       ELSE LET fix == dc.id \o "_fix"
                d2 == ReconDisk(disk, dc.id, fix)
                ids == reconstruct_ids(disk, dc.id)
            IN  /\ disk' = d2
                /\ ret' = ids
                /\ IF ids = KeyError
                   THEN /\ run' = [run EXCEPT !.pc = "raised"]
                        /\ UNCHANGED <<user_ids, query_ids>>
                   ELSE /\ user_ids' = ids.val.user_ids
                        /\ query_ids' = ids.val.query_ids
                        /\ run' = [run EXCEPT
                              !.pc = "get_timelines", !.ui = 1,
                              !.keys = KeyOrder(<<>>,
                                  LoopRecords(d2, ReconSource(d2, dc.id, fix)))]
    /\ call' = [op |-> "fetch_user_tweets"]
    /\ UNCHANGED <<db, dc, log_>>

\* get_timelines, the head of its loop over self.user_ids (lines 330-333)
GetTimelines ==
    /\ run.pc = "get_timelines"
    /\ run' = IF run.ui <= Len(run.keys)
              THEN [run EXCEPT !.pc = "get_tweets", !.user = run.keys[run.ui],
                               !.cursor = 0, !.page = <<>>]
              ELSE [run EXCEPT !.pc = "commit_msg"]
    /\ call' = [op |-> "get_timelines"]
    /\ UNCHANGED <<disk, db, user_ids, query_ids>>
    /\ LiveFrame

\* the loop over get_tweets(cursor) is over: the user is logged as fetched,
\* and get_timelines leaves its loop if self.max is set (lines 338-340)
GetTweetsReturn(r, max) ==
    IF max = 1 THEN [r EXCEPT !.pc = "commit_msg"]
    ELSE [r EXCEPT !.pc = "get_timelines", !.ui = @ + 1]

\* the except clause of get_tweets (lines 323-326): the error is logged, the
\* script sleeps 5 seconds and calls self.get_tweets(cursor), whose generator
\* nobody iterates; the generator in hand is over
GetTweetsExcept(r, max) == GetTweetsReturn([r EXCEPT !.slept = 5], max)

\* the request for a timeline page is refused
GetTweetsRateLimit ==
    /\ run.pc = "get_tweets"
    /\ run.limits > 0
    /\ run' = GetTweetsExcept([run EXCEPT !.limits = @ - 1], dc.max)
    /\ call' = [op |-> "get_tweets"]
    /\ UNCHANGED <<disk, db, user_ids, query_ids>>
    /\ LiveFrame

\* for page in cursor.pages(), in get_tweets: the next page of the timeline,
\* or its end
GetTweetsPage ==
    /\ run.pc = "get_tweets"
    /\ LET pages == run.api.timeline[run.user]
       IN  run' = IF run.cursor < Len(pages)
                  THEN [run EXCEPT !.pc = "get_tweets.page",
                                   !.cursor = @ + 1,
                                   !.page = pages[run.cursor + 1],
                                   !.timelined = Append(@, [user |-> run.user,
                                                            page |-> run.cursor + 1])]
                  ELSE GetTweetsReturn(run, dc.max)
    /\ call' = [op |-> "get_tweets"]
    /\ UNCHANGED <<disk, db, user_ids, query_ids>>
    /\ LiveFrame

\* what get_timelines keeps of a yielded tweet (lines 335-337)
MessageRecord(tweet, user_id) ==
    [tweet_id |-> tweet.id, user_id |-> user_id, tweet_text |-> tweet.text]

\* the tweet get_tweets yields next, and the insert get_timelines makes of it
GetTimelinesTweet ==
    /\ run.pc = "get_tweets.page"
    /\ db' = [db EXCEPT !["messages"] =
                  InsertBuf(@, MessageRecord(Head(run.page), run.user))]
    /\ run' = [run EXCEPT !.page = Tail(@),
                          !.pc = IF Tail(run.page) = <<>> THEN "get_tweets" ELSE @]
    /\ call' = [op |-> "get_timelines"]
    /\ UNCHANGED <<disk, user_ids, query_ids>>
    /\ LiveFrame

\* fetch_user_tweets after get_timelines: messages.commit(), and
\* remove_query_tweets() for this store identifier (lines 350-355)
FetchUserTweetsEnd ==
    /\ run.pc = "commit_msg"
    /\ LET d1 == Flushed(disk, db["messages"])
           st == RemoveLines(dc, user_ids, query_ids,
                             [h |-> db["msg_fix"], raised |-> FALSE],
                             Records(d1, dc.id \o "_msg"))
       IN  /\ disk' = d1
           /\ db' = [db EXCEPT !["messages"].buf = <<>>,
                               !["messages"].closed = TRUE,
                               !["msg_fix"] = st.h]
           /\ ret' = IF st.raised THEN KeyError ELSE None
           /\ run' = [run EXCEPT !.pc = IF st.raised THEN "raised" ELSE "done"]
    /\ call' = [op |-> "fetch_user_tweets"]
    /\ UNCHANGED <<dc, user_ids, query_ids, log_>>

NextLive ==
    \/ GetQueries
    \/ GetUsersRateLimit
    \/ GetUsersPage
    \/ \E fail \in Failures \cup {"none"} : GetUsersTweet(fail)
    \/ FetchQueryTweetsEnd
    \/ FetchUserTweets
    \/ GetTimelines
    \/ GetTweetsRateLimit
    \/ GetTweetsPage
    \/ GetTimelinesTweet
    \/ FetchUserTweetsEnd

SpecLive == InitLive /\ [][NextLive]_vars

----------------------------------------------------------------------------
(* Claims on the live collection *)

Finished == run.pc = "done"
LiveMode == run.pc # "-" /\ dc.max = 0
TestMode == run.pc # "-" /\ dc.max = 1

\* the message store on disk
Messages == Records(disk, "twitter_gender_msg")

\* the records get_timelines makes of the pages of a user's timeline
PageMessages(u, p) ==
    LET page == run.api.timeline[u][p]
    IN  [i \in 1..Len(page) |-> MessageRecord(page[i], u)]

\* C11: when a request for a timeline page was refused for the rate limit and
\* the refusals have stopped, get_tweets has gone on with the same cursor after
\* its 5 seconds: at the end of the run the message store holds the tweets of
\* every page of the timeline of every user of user_ids, those the endpoint
\* delivers after the refusal included.
C11_TimelineRecovered ==
    (Finished /\ LiveMode /\ run.slept = 5) =>
        \A u \in Range(run.keys) : \A p \in 1..Len(run.api.timeline[u]) :
            Range(PageMessages(u, p)) \subseteq Range(Messages)

\* the page requests the cursors have answered, for one query, for one user
SearchedFor(query) == SelectSeq(run.searched, LAMBDA e : e.query = Quoted(query))
TimelinedFor(u) == SelectSeq(run.timelined, LAMBDA e : e.user = u)

\* the pages 1..n of one timeline, as the cursor answers them
TimelinePages(u, n) == [p \in 1..n |-> [user |-> u, page |-> p]]

\* C12 as stated: in test mode the finished run has read one result page of
\* every configured query and one timeline page of every user of user_ids.
C12_OnePageEach ==
    (Finished /\ TestMode) =>
        /\ \A query \in DOMAIN dc.queries :
               SearchedFor(query) = <<[query |-> Quoted(query), page |-> 1]>>
        /\ \A u \in DOMAIN user_ids : TimelinedFor(u) = TimelinePages(u, 1)

\* C12: in test mode the run reads one result page, the first of the first
\* configured query, and no page of another query; it reads the timeline of
\* the first user of user_ids only, every page of it up to its end or to the
\* first refused request.
C12_FirstOnly ==
    TestMode =>
        /\ \A i \in 1..Len(run.searched) :
               i = 1 /\ run.searched[i] = [query |-> Quoted(dc.keys[1]), page |-> 1]
        /\ \A i \in 1..Len(run.timelined) :
               run.timelined[i] = [user |-> run.keys[1], page |-> i]
        /\ Finished =>
               /\ Len(run.searched) = 1
               /\ run.keys # <<>> =>
                      \/ run.slept = 5
                      \/ run.timelined =
                             TimelinePages(run.keys[1], Len(run.api.timeline[run.keys[1]]))

C12_Witness ==
    /\ Finished /\ TestMode
    /\ SearchedFor(Qa) = <<[query |-> Quoted(Qa), page |-> 1]>>
    /\ SearchedFor(Qb) = <<>>
    /\ run.keys = <<1, 2>>
    /\ DOMAIN user_ids = {1, 2}
    /\ TimelinedFor(1) = TimelinePages(1, 2)
    /\ TimelinedFor(2) = <<>>

----------------------------------------------------------------------------
(* Claim on a second run of remove_query_tweets *)

RanAgain == call.op = "remove_query_tweets again" /\ ret = None

\* C13 as stated: after a second run on the same message store, maps and
\* clean_level the corrected message store holds what it held after the first.
C13_RerunSameContent == RanAgain => MsgFix = call.first

\* C13: the second run appends to the corrected message store the records the
\* first run appended, in the same order: the store then holds the content of
\* the first run twice.
C13_RerunAppendsAgain == RanAgain => MsgFix = call.first \o call.first

C13_Witness ==
    /\ RanAgain
    /\ Len(call.first) = 2
    /\ Len(MsgFix) = 4
    /\ MsgFix[3] = call.first[1] /\ MsgFix[4] = call.first[2]

----------------------------------------------------------------------------
(* sec3_proc.py, batches_to_sets: the split of the .dataf file of a store  *)
(* identifier into a .train and a .test file.                              *)

MaxFileLen == 4

\* str.split('\n'): one more piece than there are newlines
Split(s) ==
    [k \in 1..(Cardinality(NewlineAt(s)) + 1) |->
        SubSeq(s, (IF k = 1 THEN 0 ELSE LineEnd(s, k - 1)) + 1, LineEnd(s, k) - 1)]

\* round(a / b) for a >= 0 and b > 0: to the nearest integer, a half to the
\* even one
Round(a, b) ==
    LET q == a \div b
        r == a % b
    IN  IF 2 * r < b THEN q
        ELSE IF 2 * r > b THEN q + 1
        ELSE IF q % 2 = 0 THEN q ELSE q + 1

\* xs[:n] for n >= 0
SliceTo(xs, n) == SubSeq(xs, 1, IF n < Len(xs) THEN n ELSE Len(xs))

\* xs[-n:] for n >= 0: a negative start counts from the end, and -0 is the
\* start 0
SliceFromMinus(xs, n) ==
    IF n = 0 THEN xs
    ELSE SubSeq(xs, (IF n < Len(xs) THEN Len(xs) - n ELSE 0) + 1, Len(xs))

\* [f.write(x + '\n') for x in xs]
RECURSIVE WriteLines(_)
WriteLines(xs) ==
    IF xs = <<>> THEN <<>> ELSE Head(xs) \o <<NL>> \o WriteLines(Tail(xs))

\* test_size as num / den
TestSizes == { [num |-> 0, den |-> 1], [num |-> 1, den |-> 5],
               [num |-> 1, den |-> 2], [num |-> 1, den |-> 1] }

InitSets ==
    /\ \E content \in SeqsUpTo({"a", "b", NL}, MaxFileLen) :
           disk = ("twitter_gender.dataf" :> content)
    /\ db = <<>>
    /\ dc = [id |-> "twitter_gender"]
    /\ user_ids = EmptyDict
    /\ query_ids = EmptyDict
    /\ call = [op |-> "-"]
    /\ ret = NoCall
    /\ log_ = <<>>
    /\ run = NoRun

\* batches_to_sets(db_id, test_size)
BatchesToSets(test_size) ==
    /\ call.op = "-"
    /\ LET batches == Split(disk[dc.id \o ".dataf"])
           n_test == Round(Len(batches) * test_size.num, test_size.den)
           n_train == Len(batches) - n_test
           train == SliceTo(batches, n_train)
           test == SliceFromMinus(batches, n_test)
       IN  /\ disk' = (dc.id \o ".train" :> WriteLines(train))
                      @@ (dc.id \o ".test" :> WriteLines(test)) @@ disk
           /\ call' = [op |-> "batches_to_sets", test_size |-> test_size,
                       batches |-> batches, n_test |-> n_test]
    /\ ret' = None
    /\ UNCHANGED <<db, dc, user_ids, query_ids, log_, run>>

NextSets == \E test_size \in TestSizes : BatchesToSets(test_size)

SpecSets == InitSets /\ [][NextSets]_vars

\* the lines of a file written line by line
LinesOf(name) == SplitLines(disk[name])

\* C14: with N the number of lines of the .dataf file and k = round(N * t),
\* the test set is the last k lines and the train set the first N - k lines:
\* the two share no line and cover the N lines, also when k = 0.
C14_SplitPartitions ==
    call.op = "batches_to_sets" =>
        LET N == Len(call.batches)
            k == call.n_test
        IN  /\ LinesOf("twitter_gender.test") = SubSeq(call.batches, N - k + 1, N)
            /\ LinesOf("twitter_gender.train") = SubSeq(call.batches, 1, N - k)
            /\ LinesOf("twitter_gender.train") \o LinesOf("twitter_gender.test")
                   = call.batches

\* the split when k > 0
C14_SplitWhenSome ==
    (call.op = "batches_to_sets" /\ call.n_test > 0) =>
        LinesOf("twitter_gender.train") \o LinesOf("twitter_gender.test") = call.batches

----------------------------------------------------------------------------
(* sec3_proc.py, data_to_batches: the messages of the corrected message    *)
(* store, read line by line, are written to the .dataf file in batches of  *)
(* BatchSize texts of one user.  The store is long, so its lines are the   *)
(* input of the loop, one per step: line n of the store is a message of    *)
(* some user with the text TextOf(user, n).                                *)

BatchSize == 200

\* the stream is up to MaxRuns runs of messages of one user each, of these
\* lengths
MaxRuns == 2
RunLens == {1, BatchSize - 1, BatchSize, 2 * BatchSize}

\* lm of __main__
LabelMapping == (M :> 0) @@ (F :> 1) @@ (<<"M">> :> 0) @@ (<<"F">> :> 1)

UserChar == (1 :> "a") @@ (2 :> "b") @@ (3 :> "c")

TextOf(u, n) ==
    (CASE n % 4 = 0 -> <<" ">> [] n % 4 = 1 -> <<NL>> [] n % 4 = 2 -> <<"\t">>
       [] OTHER -> <<>>)
    \o <<UserChar[u]>> \o IntToStr(n)

\* str.replace(old, new) for one-character strings
Replace(s, old, new) == [i \in 1..Len(s) |-> IF s[i] = old THEN new ELSE s[i]]

\* '\t'.join(batch)
RECURSIVE JoinTab(_)
JoinTab(batch) ==
    IF batch = <<>> THEN <<>>
    ELSE IF Len(batch) = 1 THEN batch[1]
    ELSE LET h == Len(batch) \div 2
         IN  JoinTab(SubSeq(batch, 1, h)) \o <<"\t">>
             \o JoinTab(SubSeq(batch, h + 1, Len(batch)))

\* what ft.write is handed for a full batch (lines 174-183)
BatchText(prep, label, batch) ==
    LET tweets == JoinTab(batch)
        tokens == IF tweets[1] = " " THEN Tail(tweets) ELSE tweets
    IN  prep \o <<"__label__">> \o label \o <<" ">> \o Replace(tokens, "\r", " ")

\* faulty variant: the batch of the user before is kept when the user changes
BatchLine_NoReset(st, line, uids, bin_lab) ==
    LET prep == IF st.cur_user = 0 THEN <<>> ELSE <<NL>>
        uid == line["user_id"]
        known == uid \in DOMAIN uids /\ uids[uid] \in DOMAIN bin_lab
        st2 == IF st.cur_user = uid THEN st
               ELSE IF known
               THEN [st EXCEPT !.label = IntToStr(bin_lab[uids[uid]]), !.cur_user = uid]
               ELSE st
        text == Replace(Replace(line["tweet_text"], NL, " "), "\t", " ")
        batch == Append(st2.batch, text)
    IN  IF st.cur_user # uid /\ ~known THEN st2
        ELSE IF st2.label = <<>> THEN st2
        ELSE IF Len(batch) = BatchSize
        THEN [st2 EXCEPT !.batch = <<>>,
                         !.ft = @ \o BatchText(prep, st2.label, batch)]
        ELSE [st2 EXCEPT !.batch = batch]

\* the body of the loop of data_to_batches (lines 160-184), for one line;
\* st = [cur_user, label, batch, ft]; cur_user 0 is the empty str()
BatchLine(st, line, uids, bin_lab) ==
    LET prep == IF st.cur_user = 0 THEN <<>> ELSE <<NL>>
        uid == line["user_id"]
        known == uid \in DOMAIN uids /\ uids[uid] \in DOMAIN bin_lab
        st2 == IF st.cur_user = uid THEN st
               ELSE IF known
               THEN [st EXCEPT !.batch = <<>>, !.cur_user = uid,
                               !.label = IntToStr(bin_lab[uids[uid]])]
               ELSE [st EXCEPT !.batch = <<>>]
        text == Replace(Replace(line["tweet_text"], NL, " "), "\t", " ")
        batch == Append(st2.batch, text)
    IN  IF st.cur_user # uid /\ ~known THEN st2
        ELSE IF st2.label = <<>> THEN st2
        ELSE IF Len(batch) = BatchSize
        THEN [st2 EXCEPT !.batch = <<>>,
                         !.ft = @ \o BatchText(prep, st2.label, batch)]
        ELSE [st2 EXCEPT !.batch = batch]

\* the hits of the raw store: user 1 is labelled f, user 2 m, user 3 is no hit
BatchHits == <<HitRecord(1, 11, <<"q">>, F, Qa), HitRecord(2, 12, <<"q">>, M, Qa)>>

InitBatches ==
    /\ \E fixed \in {<<>>, BatchHits} :
           disk = ("twitter_gender" :> FileOf(BatchHits))
                  @@ ("twitter_gender_fix" :> FileOf(fixed))
    /\ db = <<>>
    /\ dc = [id |-> "twitter_gender"]
    /\ user_ids = EmptyDict
    /\ query_ids = EmptyDict
    /\ call = [op |-> "-"]
    /\ ret = NoCall
    /\ log_ = <<>>
    /\ run = [pc |-> "data_to_batches"]

\* data_to_batches up to its loop (lines 147-157): ft is opened to write,
\* user_ids come from reconstruct_ids(db_id)
DataToBatches ==
    /\ run.pc = "data_to_batches"
    /\ LET ids == reconstruct_ids(disk, dc.id)
       IN  /\ ret' = ids
           /\ run' = IF ids = KeyError THEN [pc |-> "raised"]
                     ELSE [pc |-> "loop", user_ids |-> ids.val.user_ids,
                           cur_user |-> 0, label |-> <<>>, batch |-> <<>>,
                           ft |-> <<>>, n |-> 0, last |-> 0, runs |-> 0,
                           runlen |-> 0, wrote |-> FALSE]
    /\ disk' = DiskAfterOpen_Truncate(ReconDisk(disk, dc.id, dc.id \o "_fix"),
                                      dc.id \o ".dataf")
    /\ call' = [op |-> "data_to_batches"]
    /\ UNCHANGED <<db, dc, user_ids, query_ids, log_>>

\* one turn of the loop: line n + 1 of the store is a message of user u
DataToBatchesLine(u) ==
    /\ run.pc = "loop"
    /\ IF u = run.last
       THEN \E len \in RunLens : run.runlen < len
       ELSE run.runs < MaxRuns /\ (run.runs = 0 \/ run.runlen \in RunLens)
    /\ LET n == run.n + 1
           line == [tweet_id |-> n, user_id |-> u, tweet_text |-> TextOf(u, n)]
           st == BatchLine([cur_user |-> run.cur_user, label |-> run.label,
                            batch |-> run.batch, ft |-> run.ft],
                           line, run.user_ids, LabelMapping)
           wrote == st.ft # run.ft
       IN  /\ run' = [run EXCEPT !.cur_user = st.cur_user, !.label = st.label,
                                 !.batch = st.batch, !.ft = st.ft, !.n = n,
                                 !.last = u,
                                 !.runs = IF u = run.last THEN @ ELSE @ + 1,
                                 !.runlen = IF u = run.last THEN @ + 1 ELSE 1,
                                 !.wrote = wrote]
           /\ log_' = IF wrote
                      THEN Append(log_, [n |-> n, user |-> u, from |-> Len(run.ft),
                                         to |-> Len(st.ft)])
                      ELSE log_
    /\ call' = [op |-> "data_to_batches"]
    /\ UNCHANGED <<disk, db, dc, user_ids, query_ids, ret>>

\* the store has no more line: ft.close() (line 185)
DataToBatchesEnd ==
    /\ run.pc = "loop"
    /\ run.n = 0 \/ run.runlen \in RunLens
    /\ disk' = [disk EXCEPT ![dc.id \o ".dataf"] = run.ft]
    /\ run' = [run EXCEPT !.pc = "closed", !.wrote = FALSE]
    /\ call' = [op |-> "data_to_batches"]
    /\ ret' = None
    /\ UNCHANGED <<db, dc, user_ids, query_ids, log_>>

NextBatches ==
    \/ DataToBatches
    \/ \E u \in DOMAIN UserChar : DataToBatchesLine(u)
    \/ DataToBatchesEnd

SpecBatches == InitBatches /\ [][NextBatches]_vars

\* the texts of the lines lo..hi of the store, were they all of user u, as the
\* loop puts them into the batch
LinesTexts(u, lo, hi) ==
    [j \in 1..(hi - lo + 1) |->
        Replace(Replace(TextOf(u, lo + j - 1), NL, " "), "\t", " ")]

Dataf == disk["twitter_gender.dataf"]

\* C15: every line of the .dataf file is written at the line of the store
\* that makes BatchSize texts of one user since that user's run began or since
\* the last write, and holds these BatchSize texts; the batch in hand holds
\* texts of the current user's last lines only, fewer than BatchSize, and at
\* the end of the store it is written nowhere.
C15_FullBatchesOnly ==
    run.pc \in {"loop", "closed"} =>
        /\ \A i \in 1..Len(log_) :
               /\ log_[i].n >= BatchSize + (IF i = 1 THEN 0 ELSE log_[i - 1].n)
               /\ log_[i].from = (IF i = 1 THEN 0 ELSE log_[i - 1].to)
        /\ Len(run.ft) = (IF log_ = <<>> THEN 0 ELSE log_[Len(log_)].to)
        /\ run.wrote =>
               LET e == log_[Len(log_)]
               IN  /\ e.n = run.n /\ e.user = run.cur_user /\ run.batch = <<>>
                   /\ SubSeq(run.ft, e.from + 1, e.to)
                          = BatchText(<<NL>>, IntToStr(LabelMapping[run.user_ids[e.user]]),
                                      LinesTexts(e.user, e.n - BatchSize + 1, e.n))
        /\ Len(run.batch) < BatchSize
        /\ run.batch # <<>> =>
               /\ run.cur_user = run.last
               /\ Len(run.batch) <= run.runlen
               /\ run.batch = LinesTexts(run.cur_user, run.n - Len(run.batch) + 1, run.n)
        /\ run.pc = "closed" => Dataf = run.ft

C15_Witness ==
    /\ run.pc = "closed"
    /\ Len(log_) = 1 /\ log_[1].n = BatchSize /\ log_[1].user = 1
    /\ run.n = 2 * BatchSize - 1
    /\ run.last = 2 /\ run.cur_user = 2
    /\ Len(run.batch) = BatchSize - 1
    /\ Cardinality({i \in 1..Len(Dataf) : Dataf[i] = "__label__"}) = 1

----------------------------------------------------------------------------
(* The two maps, as get_users fills them during a collection and as        *)
(* reconstruct_ids rebuilds them from the stores: the runs of both.        *)

InitIndex == InitLive \/ InitRecon

NextIndex == NextLive \/ NextRecon

SpecIndex == InitIndex /\ [][NextIndex]_vars

Collecting == LiveMode \/ TestMode

\* the hits of the result pages the search cursors have delivered
PageHits ==
    UNION { { [tweet_id |-> run.api.search[e.query][e.page][i].id,
               user_id |-> run.api.search[e.query][e.page][i].user]
              : i \in 1..Len(run.api.search[e.query][e.page]) }
            : e \in Range(run.searched) }

\* the hit records of the raw and of the corrected store
StoredHits ==
    UNION { { [tweet_id |-> r["tweet_id"], user_id |-> r["user_id"]]
              : r \in {x \in Range(Records(disk, name)) :
                          Has(x, {"tweet_id", "user_id"})} }
            : name \in {"twitter_gender", "twitter_gender_fix"} \cap DOMAIN disk }

IndexSound(uids, qids, hits) ==
    \A tid \in DOMAIN qids :
        \E h \in hits : h.tweet_id = tid /\ h.user_id \in DOMAIN uids

\* C16: in every state of a collection, also after an insert of get_users
\* has failed, and for the maps reconstruct_ids returns from any store of hit
\* records, every key of query_ids is the tweet_id of a hit whose user_id is
\* a key of user_ids.
C16_IndexSound ==
    /\ Collecting => IndexSound(user_ids, query_ids, PageHits)
    /\ (run.pc = "-" /\ call.op = "reconstruct_ids" /\ ret.kind = "value")
           => IndexSound(ret.val.user_ids, ret.val.query_ids, StoredHits)
    /\ (run.pc = "-" /\ call.op = "assign_ids")
           => IndexSound(user_ids, query_ids, StoredHits)

\* the insert of the hit of tweet 11 has failed: the maps hold it, the raw
\* store does not
C16_Witness ==
    /\ Collecting
    /\ run.failures < MaxFailures
    /\ 11 \in DOMAIN query_ids /\ 1 \in DOMAIN user_ids
    /\ 12 \in DOMAIN query_ids /\ 2 \in DOMAIN user_ids
    /\ \A r \in Range(Records(Flushed(disk, db["hits"]), "twitter_gender")) :
           r["tweet_id"] # 11

----------------------------------------------------------------------------
(* The correction pass over the raw store a live collection has left: the  *)
(* hits get_users has processed, no statement failing, the two maps as it  *)
(* has filled them, hits and users committed.                              *)

MaxHits == 2

\* tweets 11 and 12 are of user 1, tweet 13 is of user 2
Author == (11 :> 1) @@ (12 :> 1) @@ (13 :> 2)

CorrectTexts ==
    { <<"q">>, <<"r">>, <<QT, "q", QT, " ", "x">> }

\* a hit: the tweet, and the key of the Query Table it was found under
HitInputs == [id : DOMAIN Author, text : CorrectTexts, key : {Qa, Qb}]

\* get_users on the hits, one after the other
RECURSIVE GetUsersAll(_, _, _)
GetUsersAll(st, queries, hits) ==
    IF hits = <<>> THEN st
    ELSE LET h == Head(hits)
         IN  GetUsersAll(GetUsersTry(st, Tweet(h.id, Author[h.id], h.text),
                                     queries[h.key], Quoted(h.key), "none"),
                         queries, Tail(hits))

InitCorrect ==
    \E hits \in SeqsUpTo(HitInputs, MaxHits) :
        /\ \A i, j \in 1..Len(hits) : hits[i].id = hits[j].id => hits[i].text = hits[j].text
        /\ dc = LiveDC(<<Qa, Qb>>, (Qa :> F) @@ (Qb :> M), "live")
        /\ LET opened == Opened("twitter_gender")
               st == GetUsersAll([user_ids |-> EmptyDict, query_ids |-> EmptyDict,
                                  keys |-> <<>>, users |-> opened["users"],
                                  hits |-> opened["hits"]], dc.queries, hits)
           IN  /\ user_ids = st.user_ids
               /\ query_ids = st.query_ids
               /\ disk = Flushed(Flushed(EmptyFiles("twitter_gender"), st.hits), st.users)
               /\ db = Collected("twitter_gender")
        /\ call = [op |-> "-"]
        /\ ret = NoCall
        /\ log_ = <<>>
        /\ run = NoRun

NextCorrect == CorrectQueryTweets

SpecCorrect == InitCorrect /\ [][NextCorrect]_vars

RawHits == Records(disk, "twitter_gender")
FixedHits == Records(disk, "twitter_gender_fix")
Passed == call.op = "correct_query_tweets" /\ ret = None

\* what flip_label returns for a stored hit
Decision(r) ==
    flip_label(dc, user_ids, query_ids, r["user_id"], r["tweet_id"],
               Lower(r["tweet_text"]))

HasDecision(r) == Decision(r).kind = "value"

\* the hits with a decision, in order, each with the decision as its label
Relabelled(hits) ==
    LET sel == SelectSeq(hits, HasDecision)
    IN  [i \in 1..Len(sel) |-> Put(sel[i], "label", Decision(sel[i]).val)]

\* C17: the pass appends to the corrected store, in the order of the raw
\* store, the raw hit records for which flip_label returns a label, each with
\* that label and its other fields as they were, and no other record; it
\* leaves the raw store as it was.
C17_PassFrame ==
    [][ (call'.op = "correct_query_tweets" /\ ret' = None /\ ~Passed) =>
            /\ disk'["twitter_gender"] = disk["twitter_gender"]
            /\ Records(disk', "twitter_gender_fix") = FixedHits \o Relabelled(RawHits)
      ]_vars

\* two hits of which the first has no decision and the second is flipped
C17_Witness ==
    /\ Passed
    /\ Len(RawHits) = 2
    /\ ~HasDecision(RawHits[1])
    /\ RawHits[2]["label"] = F
    /\ FixedHits = <<Put(RawHits[2], "label", M)>>
    /\ user_ids[RawHits[2]["user_id"]] = F

\* the other of the two labels
Opposite(label) == IF label = F THEN M ELSE IF label = M THEN F ELSE label

----------------------------------------------------------------------------
(* Claim on the query strings a live collection stores *)

\* fetch_query_tweets has returned
QueriesFetched ==
    Collecting /\ run.pc \in {"fetched", "get_timelines", "get_tweets",
                             "get_tweets.page", "commit_msg", "done"}

\* C19: after get_queries every value of query_ids and the query field of
\* every record of the raw store is a key of self.queries, the query as it was
\* formatted, so that flip_label tests the text for the string the Query
\* Table holds.
C19_StoredQueryIsKey ==
    QueriesFetched =>
        /\ \A tid \in DOMAIN query_ids : query_ids[tid] \in DOMAIN dc.queries
        /\ \A r \in Range(Records(disk, "twitter_gender")) :
               r["query"] \in DOMAIN dc.queries

====
